---- MODULE Spec2Model ----
(***************************************************************************)
(* Session protection of the WlfRyt Google Calendar shell: the             *)
(* SessionProtection object (src/src/session-protection.js, lines 11-373)  *)
(* and the host wiring around it (same file, lines 377-1179).              *)
(* The protected files are the record `files`; keys, ciphertexts and tags  *)
(* are symbolic values, AES-256-GCM being taken as an ideal authenticated  *)
(* cipher.                                                                 *)
(*                                                                         *)
(* Time is counted in ticks of TickMs milliseconds.  A pending setTimeout  *)
(* is a record in `timers`; a timer whose remaining time is 0 fires before *)
(* time advances any further.                                              *)
(***************************************************************************)
EXTENDS Integers, Sequences, FiniteSets, TLC

VARIABLES
  isLocked,             \* this.isLocked
  lockTimeout,          \* this.lockTimeout: NULL or the id of a Timeout
  lockTimeoutMs,        \* this.lockTimeoutMs
  settings,             \* this.settings
  timers,               \* pending timeouts of the event loop
  files,                \* the protected files on disk
  safeStorageAvailable, \* safeStorage.isEncryptionAvailable() of this run
  platform,             \* process.platform, drawn when the code first reads it
  phase,                \* "constructed" until app.whenReady, then "ready"
  mainWindow,           \* "none", "visible", "minimized" or "hidden"
  focused,              \* the main window has the focus
  focusLostTime,        \* NoBlur, or ticks elapsed since the last blur
  lockWindow,           \* "none" (null) or "open"
  pendingUnlocks,       \* unlock(true) calls suspended at the biometric prompt
  idle,                 \* ticks an unlocked session has gone without an
                        \* activity event (0 while Locked)
  lastOp,               \* the last handler run, its result and its pre-state
  keysIssued,           \* how many keys crypto.randomBytes(32) has produced
  sealed,               \* the last payload given to encrypt() and its envelope
  lastKey,              \* what getSessionKey() returned last, since the last
                        \* clearAllData()
  result,               \* the value returned by the last call of the key
                        \* manager or the cipher, and what it was given
  wipeLog,              \* the file operations of the clearAllData() just run
  nav                   \* the URL the main window shows and the URL last
                        \* handed to shell.openExternal

keyVars == <<keysIssued, sealed, lastKey, result, wipeLog>>

vars == <<isLocked, lockTimeout, lockTimeoutMs, settings, timers, files,
          safeStorageAvailable, platform, phase, mainWindow, focused,
          focusLostTime, lockWindow, pendingUnlocks, idle, lastOp,
          keysIssued, sealed, lastKey, result, wipeLog, nav>>

\* A Timeout handle is a positive id; `if (this.lockTimeout)` tests for NULL.
NULL == 0
\* focusLostTime = null
NoBlur == -1

\* ---------------------------------------------------------------- bounds
MaxIdle == 5
MaxPendingUnlocks == 1
MaxTimers == 2
MaxKeys == 2
MaxFailAt == 16

\* ------------------------------------------------------------- constants
\* One tick of model time: the smallest positive timeout of the Security
\* menu; every timeout of the menu is a whole number of ticks.
TickMs == 15 * 60 * 1000
MsPerMinute == 60 * 1000
DefaultLockTimeoutMs == 30 * 60 * 1000
BlurLimitMs == 5 * 60 * 1000

Platforms == {"darwin", "win32", "linux"}

DefaultSettings ==
  [requireBiometric |-> FALSE, lockOnMinimize |-> FALSE, autoLockMinutes |-> 30,
   secureClipboard |-> TRUE, preventScreenCapture |-> FALSE]

\* The values the Security menu offers for autoLockMinutes.
AutoLockChoices == {15, 30, 60, 0}

\* ------------------------------------------------------ JSON and storage
SettingsKeys ==
  <<"requireBiometric", "lockOnMinimize", "autoLockMinutes",
    "secureClipboard", "preventScreenCapture">>

\* JSON.stringify(this.settings): the members in insertion order.
JSONstringify(s) == [i \in 1..Len(SettingsKeys) |-> <<SettingsKeys[i], s[SettingsKeys[i]]>>]

\* JSON.parse of such a text: an object with the members of the text.
JSONparse(text) ==
  [k \in {text[i][1] : i \in 1..Len(text)} |->
     text[CHOOSE i \in 1..Len(text) : text[i][1] = k][2]]

\* { ...a, ...b }
Merge(a, b) == [k \in (DOMAIN a) \cup (DOMAIN b) |-> IF k \in DOMAIN b THEN b[k] ELSE a[k]]

\* safeStorage.encryptString / decryptString: an opaque wrapper.
encryptString(text) == [cipher |-> "safeStorage", text |-> text]
decryptString(blob) == blob.text

\* decryptString throws on bytes that encryptString has not produced.
decryptStringThrows(blob) == blob.cipher # "safeStorage"

\* The bytes written for a text, in units of its tokens; encryptString
\* adds a header.
SafeStorageHeader == 1
byteLength(blob) ==
  Len(blob.text) + (IF blob.cipher = "safeStorage" THEN SafeStorageHeader ELSE 0)

\* A file of the secure directory: absent, or present with its content.
NoFile == [exists |-> FALSE, content |-> [cipher |-> "none", text |-> <<>>], size |-> 0]
FileWith(blob) == [exists |-> TRUE, content |-> blob, size |-> byteLength(blob)]
existsSync(f) == f.exists

\* writeFileSync(path, key): the text as it is.
PlainBytes(text) == [cipher |-> "none", text |-> text]

\* A file after writeFileSync(path, crypto.randomBytes(len)) ("random") or
\* writeFileSync(path, Buffer.alloc(len)) ("zeros").
Overwritten(fill, len) ==
  [exists |-> TRUE, content |-> [cipher |-> fill, text |-> <<>>], size |-> len]

\* The disk before the first run: no secure directory.
EmptyDisk ==
  [dir |-> FALSE, keyFile |-> NoFile, configFile |-> NoFile, integrityFile |-> NoFile]

\* ------------------------------------------------- the state as a record
\* The operators below are the methods of the source: each takes the state
\* before the call and yields the state after it; `ret` is the value returned.
Cur ==
  [isLocked |-> isLocked, lockTimeout |-> lockTimeout,
   lockTimeoutMs |-> lockTimeoutMs, settings |-> settings, timers |-> timers,
   files |-> files, mainWindow |-> mainWindow, focused |-> focused,
   focusLostTime |-> focusLostTime, lockWindow |-> lockWindow, ret |-> "none"]

Commit(w) ==
  /\ isLocked' = w.isLocked
  /\ lockTimeout' = w.lockTimeout
  /\ lockTimeoutMs' = w.lockTimeoutMs
  /\ settings' = w.settings
  /\ timers' = w.timers
  /\ files' = w.files
  /\ mainWindow' = w.mainWindow
  /\ focused' = w.focused
  /\ focusLostTime' = w.focusLostTime
  /\ lockWindow' = w.lockWindow

\* ------------------------------------------------------------ the timer
TimerIds(tm) == {t.id : t \in tm}

\* setTimeout(callback, ms): a new Timeout object, due after ms.
TicksOf(ms) == (ms + TickMs - 1) \div TickMs
NewTimerId(tm) == CHOOSE i \in 1..(Cardinality(tm) + 1) : i \notin TimerIds(tm)
setTimeout(tm, id, ms) == tm \cup {[id |-> id, ms |-> ms, remaining |-> TicksOf(ms)]}

\* clearTimeout(handle)
clearTimeout(tm, id) == {t \in tm : t.id # id}

clearLockTimeout(w) ==
  IF w.lockTimeout # NULL
    THEN [w EXCEPT !.timers = clearTimeout(w.timers, w.lockTimeout),
                   !.lockTimeout = NULL]
    ELSE w

\* resetLockTimeout without the cancellation of the previous timer
resetLockTimeout_NoCancel(w) ==
  LET id == NewTimerId(w.timers)
  IN [w EXCEPT !.timers = setTimeout(w.timers, id, w.lockTimeoutMs),
               !.lockTimeout = id]

resetLockTimeout(w) ==
  LET c == clearLockTimeout(w)
      id == NewTimerId(c.timers)
  IN [c EXCEPT !.timers = setTimeout(c.timers, id, c.lockTimeoutMs),
               !.lockTimeout = id]

\* ------------------------------------------------------- lock and unlock
\* lock() that refuses a session that is locked already
lock_RefusesLocked(w) ==
  IF w.isLocked THEN [w EXCEPT !.ret = "false"]
  ELSE [clearLockTimeout([w EXCEPT !.isLocked = TRUE]) EXCEPT !.ret = "true"]

\* lock() that leaves the inactivity timer alone
lock_KeepsTimer(w) == [w EXCEPT !.isLocked = TRUE, !.ret = "true"]

lock(w) == [clearLockTimeout([w EXCEPT !.isLocked = TRUE]) EXCEPT !.ret = "true"]

\* unlock() that clears the flag and leaves the inactivity timer alone
unlockGranted_NoReset(w) == [w EXCEPT !.isLocked = FALSE, !.ret = "true"]

\* The part of unlock() after the biometric gate has been passed.
unlockGranted(w) ==
  [resetLockTimeout([w EXCEPT !.isLocked = FALSE]) EXCEPT !.ret = "true"]

\* unlock() that goes on whatever the prompt answered
unlockAfterPrompt_IgnoresAnswer(w, authenticated) == unlockGranted(w)

\* The part of unlock() after the biometric prompt has answered.
unlockAfterPrompt(w, authenticated) ==
  IF ~authenticated THEN [w EXCEPT !.ret = "false"] ELSE unlockGranted(w)

\* unlock(useBiometric) suspends at `await` iff the gate applies.
unlockSuspends(w, useBiometric) == useBiometric /\ w.settings.requireBiometric

\* The answers authenticateWithBiometrics() can give on each platform.
authenticateWithBiometrics(p) ==
  IF p = "darwin" THEN {TRUE, FALSE}
  ELSE IF p = "win32" THEN {TRUE}
  ELSE {FALSE}

\* ------------------------------------------------------------- settings
\* saveSettings that merges only after the write
saveSettings_WriteFirst(w, newSettings, avail, ioOk) ==
  LET merged == Merge(w.settings, newSettings)
      m == [w EXCEPT !.settings = merged,
                     !.lockTimeoutMs = merged.autoLockMinutes * 60 * 1000]
  IN IF avail
       THEN IF ioOk /\ w.files.dir
              THEN [m EXCEPT !.files.configFile =
                                FileWith(encryptString(JSONstringify(merged))),
                             !.ret = "true"]
              ELSE [w EXCEPT !.ret = "false"]
       ELSE [m EXCEPT !.ret = "true"]

\* saveSettings(newSettings); ioOk = FALSE when encryptString or
\* writeFileSync throws; writeFileSync throws (ENOENT) without the directory.
saveSettings(w, newSettings, avail, ioOk) ==
  LET merged == Merge(w.settings, newSettings)
      m == [w EXCEPT !.settings = merged,
                     !.lockTimeoutMs = merged.autoLockMinutes * 60 * 1000]
  IN IF avail
       THEN IF ioOk /\ w.files.dir
              THEN [m EXCEPT !.files.configFile =
                                FileWith(encryptString(JSONstringify(merged))),
                             !.ret = "true"]
              ELSE [m EXCEPT !.ret = "false"]
       ELSE [m EXCEPT !.ret = "true"]

\* _loadSettings(): a decryptString that throws is caught.
loadSettings(w, avail) ==
  IF existsSync(w.files.configFile) /\ avail
       /\ ~decryptStringThrows(w.files.configFile.content)
    THEN [w EXCEPT !.settings =
            Merge(w.settings, JSONparse(decryptString(w.files.configFile.content)))]
    ELSE w

\* _initSecureDirectory that creates nothing
initSecureDirectory_NoMkdir(w) == w

\* _initSecureDirectory()
initSecureDirectory(w) == [w EXCEPT !.files.dir = TRUE]

\* The sha256 digests of the versions of src/main.js.
MainHashes == {1, 2}

\* _verifyIntegrity that stores the new digest over a record that differs
verifyIntegrity_Rebaselines(w, currentHash) ==
  IF ~w.files.dir THEN w
  ELSE [w EXCEPT !.files.integrityFile =
                    FileWith(PlainBytes(<<"main", ":", currentHash>>))]

\* Whether _verifyIntegrity() logs 'App integrity check failed': the text
\* after the first ':' of the record is not empty and is not the digest.
\* A record overwritten with random bytes may or may not hold a ':'; one
\* overwritten with zero bytes holds none.
integrityWarnings(w, currentHash) ==
  LET f == w.files.integrityFile
  IN IF ~existsSync(f) \/ f.content.cipher = "zeros" THEN {FALSE}
     ELSE IF f.content.cipher = "random" THEN BOOLEAN
     ELSE {f.content.text[3] # currentHash}

\* _verifyIntegrity(): a stored record is compared and a mismatch only
\* logged; without a record the digest of main.js is stored.
verifyIntegrity(w, currentHash) ==
  IF existsSync(w.files.integrityFile) \/ ~w.files.dir THEN w
  ELSE [w EXCEPT !.files.integrityFile =
                    FileWith(PlainBytes(<<"main", ":", currentHash>>))]

\* new SessionProtection() over the files of the disk, and the module-level
\* variables of the host at process start.
constructor(fs, avail, currentHash) ==
  verifyIntegrity(
    loadSettings(
      initSecureDirectory(
        [isLocked |-> FALSE, lockTimeout |-> NULL,
         lockTimeoutMs |-> DefaultLockTimeoutMs, settings |-> DefaultSettings,
         timers |-> {}, files |-> fs, mainWindow |-> "none", focused |-> FALSE,
         focusLostTime |-> NoBlur, lockWindow |-> "none", ret |-> "none"]),
      avail),
    currentHash)

\* ------------------------------------------------------ the session key
\* A JavaScript value is a tuple headed by its kind.
NoValue == <<"none">>
JsNull == <<"null">>
JsUndefined == <<"undefined">>
JsNumber == <<"number", "7">>
JsString == <<"string", "a">>

\* crypto.randomBytes(32).toString('hex'): the n-th key drawn, 64 hex digits.
randomKey(n) == <<"hex", n>>
IsSessionKey(s) == s[1] = "hex"

\* encryptedKey.toString('utf8'): the text of a file written as it was, and
\* other characters for any other bytes.
toStringUtf8(blob) ==
  IF blob.cipher = "none" THEN blob.text ELSE <<"bytes", blob.cipher, blob.text>>

\* saveSessionKey(key): an error of writeFileSync is caught and logged.
saveSessionKey(w, key, avail, writeOk) ==
  IF w.files.dir /\ writeOk
    THEN [w EXCEPT !.files.keyFile =
            FileWith(IF avail THEN encryptString(key) ELSE PlainBytes(key))]
    ELSE w

\* Reading the key file fails: readFileSync or decryptString throws.
readFails(w, avail, readOk) ==
  existsSync(w.files.keyFile)
    /\ (~readOk \/ (avail /\ decryptStringThrows(w.files.keyFile.content)))

\* The branch getSessionKey() takes.
keyBranch(w, avail, readOk) ==
  IF ~existsSync(w.files.keyFile) THEN "created"
  ELSE IF readFails(w, avail, readOk) THEN "regenerated"
  ELSE "read"

\* getSessionKey whose catch clause returns the new key without saving it
getSessionKey_NoSaveOnError(w, avail, readOk, writeOk, newKey) ==
  IF keyBranch(w, avail, readOk) = "created"
    THEN [w |-> saveSessionKey(w, newKey, avail, writeOk), v |-> newKey]
  ELSE IF keyBranch(w, avail, readOk) = "regenerated"
    THEN [w |-> w, v |-> newKey]
  ELSE [w |-> w, v |-> IF avail THEN decryptString(w.files.keyFile.content)
                       ELSE toStringUtf8(w.files.keyFile.content)]

\* getSessionKey(): newKey is the key randomBytes yields if it is called;
\* readOk = FALSE when readFileSync throws.  w is the state after the call
\* and v the value returned.
getSessionKey(w, avail, readOk, writeOk, newKey) ==
  LET f == w.files.keyFile
      generated == [w |-> saveSessionKey(w, newKey, avail, writeOk), v |-> newKey]
  IN IF existsSync(f)
       THEN IF ~readOk THEN generated
            ELSE IF avail
                   THEN IF decryptStringThrows(f.content) THEN generated
                        ELSE [w |-> w, v |-> decryptString(f.content)]
                   ELSE [w |-> w, v |-> toStringUtf8(f.content)]
       ELSE generated

\* --------------------------------------------------------------- cipher
\* JSON.stringify(data): a text, or undefined for undefined.
JSONstringifyValue(data) ==
  IF data = JsUndefined THEN JsUndefined
  ELSE IF data = JsNull THEN <<"text", "null", "null">>
  ELSE <<"text", data[1], data[2]>>

\* A text that is no JSON.
NotJson == <<"text", "invalid", "{">>

JSONparseThrows(text) == text[2] \notin {"null", "number", "string"}

\* JSON.parse(text) of a text that parses
JSONparseValue(text) ==
  IF text[2] = "null" THEN JsNull ELSE <<text[2], text[3]>>

\* Buffer.from(s, 'hex'): 32 bytes for 64 hex digits, fewer for a string
\* that is not hexadecimal throughout.
bufferFromHex(s) == IF IsSessionKey(s) THEN <<"key", s[2]>> ELSE <<"short">>

\* createCipheriv / createDecipheriv throw on a key that is not 32 bytes.
invalidKeyLength(key) == key[1] # "key"

\* aes-256-gcm: the ciphertext hides the text under key and iv, and the tag
\* authenticates the ciphertext under key and iv.
gcmCiphertext(key, iv, text) == <<"gcm", key, iv, text>>
gcmTag(key, iv, data) == <<"tag", key, iv, data>>

\* decipher.update(data): the text under the right key and iv, and other
\* bytes otherwise.
gcmPlaintext(key, iv, data) ==
  IF Len(data) = 4 /\ data[2] = key /\ data[3] = iv THEN data[4] ELSE NotJson

\* a decipher.final() that accepts any tag
gcmAuthentic_Unchecked(key, iv, data, tag) == TRUE

\* decipher.final() accepts the ciphertext iff the tag set is its tag.
gcmAuthentic(key, iv, data, tag) == tag = gcmTag(key, iv, data)

\* null in the place of an envelope, and an object without the members.
NullEnvelope == [null |-> TRUE, iv |-> 0, data |-> <<>>, tag |-> <<>>, v |-> 0]
EmptyObject == [null |-> FALSE, iv |-> 0, data |-> <<>>, tag |-> <<>>, v |-> 0]

\* Buffer.from(undefined, 'hex') throws a TypeError.
missingMember(env) == env.iv = 0 \/ env.tag = <<>>

\* The envelope { iv, data, tag, v: 2 } of a text under key and iv.
Envelope(key, iv, text) ==
  [null |-> FALSE, iv |-> iv, data |-> gcmCiphertext(key, iv, text),
   tag |-> gcmTag(key, iv, gcmCiphertext(key, iv, text)), v |-> 2]

\* encrypt(data): iv is what randomBytes(16) yields; cipher.update throws
\* on undefined, and the catch clause returns null.
encrypt(w, data, avail, readOk, writeOk, newKey, iv) ==
  LET g == getSessionKey(w, avail, readOk, writeOk, newKey)
      key == bufferFromHex(g.v)
      text == JSONstringifyValue(data)
  IN IF invalidKeyLength(key) \/ text = JsUndefined
       THEN [w |-> g.w, v |-> NullEnvelope]
       ELSE [w |-> g.w, v |-> Envelope(key, iv, text)]

\* The body of decrypt's try block: threw = TRUE when a statement throws.
decryptTry(w, env, avail, readOk, writeOk, newKey) ==
  LET g == getSessionKey(w, avail, readOk, writeOk, newKey)
      key == bufferFromHex(g.v)
      thrown == [w |-> g.w, v |-> NoValue, threw |-> TRUE]
  IN IF env.null \/ missingMember(env) THEN thrown
     ELSE IF invalidKeyLength(key) THEN thrown
     ELSE IF ~gcmAuthentic(key, env.iv, env.data, env.tag) THEN thrown
     ELSE IF JSONparseThrows(gcmPlaintext(key, env.iv, env.data)) THEN thrown
     ELSE [w |-> g.w, v |-> JSONparseValue(gcmPlaintext(key, env.iv, env.data)),
           threw |-> FALSE]

\* decrypt without its catch clause
decrypt_NoCatch(w, env, avail, readOk, writeOk, newKey) ==
  LET t == decryptTry(w, env, avail, readOk, writeOk, newKey)
  IN [w |-> t.w, v |-> t.v, raised |-> t.threw]

\* decrypt(encryptedData): the catch clause returns null.
decrypt(w, env, avail, readOk, writeOk, newKey) ==
  LET t == decryptTry(w, env, avail, readOk, writeOk, newKey)
  IN [w |-> t.w, v |-> (IF t.threw THEN JsNull ELSE t.v), raised |-> FALSE]

\* --------------------------------------------------------------- eraser
ProtectedFiles == <<"keyFile", "configFile", "integrityFile">>
WipePasses == 3
DefaultWipeLength == 256

\* A file operation: size is stats.size of the file it is issued for.
WriteOp(name, fill, len, size) ==
  [op |-> "write", file |-> name, fill |-> fill, len |-> len, size |-> size]
UnlinkOp(name, size) ==
  [op |-> "unlink", file |-> name, fill |-> "none", len |-> 0, size |-> size]
RmDirOp == [op |-> "rm", file |-> "dir", fill |-> "none", len |-> 0, size |-> 0]

\* secureDelete that unlinks the file before it overwrites it
secureDelete_UnlinkFirst(name, f) ==
  IF ~existsSync(f) THEN <<>>
  ELSE <<UnlinkOp(name, f.size)>>
         \o [i \in 1..WipePasses |-> WriteOp(name, "random", f.size, f.size)]
         \o <<WriteOp(name, "zeros", f.size, f.size)>>

\* secureDelete(filePath): the file operations it issues on file f.
secureDelete(name, f) ==
  IF ~existsSync(f) THEN <<>>
  ELSE LET len == IF f.size # 0 THEN f.size ELSE DefaultWipeLength
       IN [i \in 1..WipePasses |-> WriteOp(name, "random", len, f.size)]
            \o <<WriteOp(name, "zeros", len, f.size), UnlinkOp(name, f.size)>>

\* The effect of one file operation on the disk.
applyOp(fs, o) ==
  IF o.op = "write" THEN [fs EXCEPT ![o.file] = Overwritten(o.fill, o.len)]
  ELSE IF o.op = "unlink" THEN [fs EXCEPT ![o.file] = NoFile]
  ELSE EmptyDisk

RECURSIVE applyOps(_, _, _)
applyOps(fs, ops, n) ==
  IF n = 0 THEN fs ELSE applyOp(applyOps(fs, ops, n - 1), ops[n])

\* The file operations of clearAllData() when none of them throws.
clearPlan(fs) ==
  secureDelete(ProtectedFiles[1], fs[ProtectedFiles[1]])
    \o secureDelete(ProtectedFiles[2], fs[ProtectedFiles[2]])
    \o secureDelete(ProtectedFiles[3], fs[ProtectedFiles[3]])
    \o (IF fs.dir THEN <<RmDirOp>> ELSE <<>>)

\* clearAllData that leaves the directory in place
clearAllData_KeepsDirectory(w, failAt) ==
  LET plan == clearPlan(w.files)
      kept == SubSeq(plan, 1, Len(plan) - (IF w.files.dir THEN 1 ELSE 0))
  IN [w |-> [w EXCEPT !.files = applyOps(w.files, kept, Len(kept)), !.ret = "true"],
      log |-> kept]

\* clearAllData that puts the files back when an operation throws
clearAllData_Rollback(w, failAt) ==
  LET plan == clearPlan(w.files)
      failed == failAt \in 1..Len(plan)
      n == IF failed THEN failAt - 1 ELSE Len(plan)
  IN [w |-> [w EXCEPT !.files = IF failed THEN w.files ELSE applyOps(w.files, plan, n),
                      !.ret = IF failed THEN "false" ELSE "true"],
      log |-> SubSeq(plan, 1, n)]

\* clearAllData(): the failAt-th file operation throws (0: none does); the
\* operations before it have taken effect and it returns false.
clearAllData(w, failAt) ==
  LET plan == clearPlan(w.files)
      failed == failAt \in 1..Len(plan)
      n == IF failed THEN failAt - 1 ELSE Len(plan)
  IN [w |-> [w EXCEPT !.files = applyOps(w.files, plan, n),
                      !.ret = IF failed THEN "false" ELSE "true"],
      log |-> SubSeq(plan, 1, n)]

\* getSecurityStatus()
getSecurityStatus(w, avail) ==
  [isLocked |-> w.isLocked,
   secureStorageAvailable |-> avail,
   sessionProtected |-> existsSync(w.files.keyFile),
   encryptionAlgorithm |-> "AES-256-GCM",
   keyStorage |-> IF avail THEN "OS Keychain (DPAPI/Keychain)"
                           ELSE "File-based (fallback)",
   autoLockMinutes |-> w.settings.autoLockMinutes,
   integrityVerified |-> existsSync(w.files.integrityFile),
   settings |-> w.settings]

\* ------------------------------------------------------------- the URLs
\* A URL string is the sequence of its pieces: the scheme with "://", the
\* labels of the host, ".", "@", "/" and the segments of the path. No piece
\* is the beginning of another, so that one string begins or ends with
\* another exactly when its pieces do.
startsWith(s, p) == Len(p) <= Len(s) /\ SubSeq(s, 1, Len(p)) = p
endsWith(s, p) == Len(p) <= Len(s) /\ SubSeq(s, Len(s) - Len(p) + 1, Len(s)) = p

UrlSchemes == {"https://", "http://"}

Dot(a, b, c) == <<a, ".", b, ".", c>>

ALLOWED_URLS ==
  { <<"https://">> \o Dot("calendar", "google", "com"),
    <<"https://">> \o Dot("accounts", "google", "com"),
    <<"https://">> \o Dot("www", "google", "com") \o <<"/", "calendar">>,
    <<"https://">> \o Dot("www", "google", "com") \o <<"/", "signin">>,
    <<"https://">> \o Dot("www", "google", "com") \o <<"/", "accounts">>,
    <<"https://">> \o Dot("myaccount", "google", "com"),
    <<"https://">> \o Dot("support", "google", "com"),
    <<"https://">> \o Dot("ssl", "gstatic", "com"),
    <<"https://">> \o Dot("www", "gstatic", "com"),
    <<"https://">> \o Dot("apis", "google", "com"),
    <<"https://">> \o Dot("oauth2", "googleapis", "com"),
    <<"https://">> \o Dot("www", "googleapis", "com"),
    <<"https://">> \o Dot("play", "google", "com"),
    <<"https://">> \o Dot("gds", "google", "com"),
    <<"https://">> \o Dot("ogs", "google", "com"),
    <<"https://">> \o Dot("lh3", "googleusercontent", "com"),
    <<"https://">> \o Dot("fonts", "googleapis", "com"),
    <<"https://">> \o Dot("fonts", "gstatic", "com") }

googleDomains ==
  { <<".", "google", ".", "com">>, <<".", "googleapis", ".", "com">>,
    <<".", "gstatic", ".", "com">>, <<".", "googleusercontent", ".", "com">> }

\* new URL(url): the authority runs from the scheme to the first "/"; the
\* host is what follows the last "@" of the authority.
authority(url) ==
  LET slashes == {i \in 2..Len(url) : url[i] = "/"}
      end == IF slashes = {} THEN Len(url) + 1
             ELSE CHOOSE i \in slashes : \A j \in slashes : i <= j
  IN SubSeq(url, 2, end - 1)

hostname(url) ==
  LET a == authority(url)
      ats == {i \in 1..Len(a) : a[i] = "@"}
  IN IF ats = {} THEN a
     ELSE SubSeq(a, (CHOOSE i \in ats : \A j \in ats : j <= i) + 1, Len(a))

\* new URL(url) throws on a string without a scheme or without a host.
URLThrows(url) ==
  url = <<>> \/ url[1] \notin UrlSchemes \/ hostname(url) = <<>>

isAllowedUrl(url) ==
  IF URLThrows(url) THEN FALSE
  ELSE \/ \E domain \in googleDomains : endsWith(hostname(url), domain)
       \/ \E allowed \in ALLOWED_URLS : startsWith(url, allowed)

\* The main window and the external browser: nothing loaded, nothing opened.
NoUrl == <<>>
NoNav == [shown |-> NoUrl, external |-> NoUrl]
CalendarHome ==
  <<"https://">> \o Dot("calendar", "google", "com") \o <<"/", "calendar", "/", "r">>

\* mainWindow.loadURL(url), and a navigation that is let through
loadURL(n, url) == [n EXCEPT !.shown = url]
\* shell.openExternal(url)
openExternal(n, url) == [n EXCEPT !.external = url]

\* The 'will-navigate' handler of the main window.
willNavigate(n, url) ==
  IF ~isAllowedUrl(url) THEN openExternal(n, url) ELSE loadURL(n, url)

\* The handler given to setWindowOpenHandler.
windowOpenHandler(n, url) ==
  IF isAllowedUrl(url) THEN loadURL(n, url) ELSE openExternal(n, url)

\* ----------------------------------------------------------- the windows
\* The 'blur' handler of the main window.
onBlur(w) == [w EXCEPT !.focused = FALSE, !.focusLostTime = 0]

\* The elapsed time since a blur matters only through the comparison with
\* BlurLimitMs: once a tick has passed it stays above the limit.
BlurSaturated == 1

\* Date.now() - focusLostTime > 5 * 60 * 1000
BlurredTooLong(w) == w.focusLostTime # NoBlur /\ w.focusLostTime * TickMs > BlurLimitMs

\* The two 'focus' handlers of the main window, in registration order.
onFocus(w) ==
  LET a == IF BlurredTooLong(w) /\ w.settings.autoLockMinutes > 0
             THEN resetLockTimeout(w) ELSE w
      b == [a EXCEPT !.focusLostTime = NoBlur, !.focused = TRUE]
  IN resetLockTimeout(b)

\* mainWindow.hide(): a focused window loses the focus.
hideMainWindow(w) ==
  IF w.mainWindow = "none" THEN w
  ELSE [(IF w.focused THEN onBlur(w) ELSE w) EXCEPT !.mainWindow = "hidden"]

\* mainWindow.show(); mainWindow.focus()
showMainWindow(w) ==
  IF w.mainWindow = "none" THEN w
  ELSE IF w.focused THEN [w EXCEPT !.mainWindow = "visible"]
  ELSE onFocus([w EXCEPT !.mainWindow = "visible"])

\* lockSession that shows the lock screen without sessionProtection.lock()
lockSession_NoLock(w) ==
  IF w.lockWindow # "none" THEN w
  ELSE [hideMainWindow(w) EXCEPT !.lockWindow = "open", !.ret = "none"]

lockSession(w) ==
  IF w.lockWindow # "none" THEN w
  ELSE [hideMainWindow(lock(w)) EXCEPT !.lockWindow = "open", !.ret = "none"]

\* unlockSession that swaps the windows without sessionProtection.unlock()
unlockSession_NoUnlock(w) ==
  [showMainWindow([w EXCEPT !.lockWindow = "none"]) EXCEPT !.ret = "none"]

\* sessionProtection.unlock() has useBiometric = false: it runs to its end
\* before unlockSession goes on.
unlockSession(w) ==
  LET u == IF unlockSuspends(w, FALSE) THEN w ELSE unlockGranted(w)
  IN [showMainWindow([u EXCEPT !.lockWindow = "none"]) EXCEPT !.ret = "none"]

\* ipcMain.handle('lock-session')
ipcLockSession(w) ==
  IF w.isLocked THEN [unlockSession(w) EXCEPT !.ret = "false"]
  ELSE [lockSession(w) EXCEPT !.ret = "true"]

\* The 'minimize' handler of the main window.
onMinimize(w, minimizeToTray) ==
  LET m == [(IF w.focused THEN onBlur(w) ELSE w) EXCEPT !.mainWindow = "minimized"]
      l == IF m.settings.lockOnMinimize THEN lockSession(m) ELSE m
  IN IF minimizeToTray THEN hideMainWindow(l) ELSE l

\* app.whenReady: start the activity timeout, create and show the window.
whenReady(w) ==
  onFocus([resetLockTimeout(w) EXCEPT !.mainWindow = "visible"])

\* The Auto-Lock radio items of the Security menu.
menuAutoLock(w, minutes, avail, ioOk) ==
  LET sv == saveSettings(w, [autoLockMinutes |-> minutes], avail, ioOk)
  IN IF minutes = 0 THEN clearLockTimeout(sv) ELSE sv

\* The messages a handler of the main process sends on the channel
\* 'lock-state-changed': the preload script listens on it, and no statement
\* of the main process sends on it (nor on any other channel).
lockStateChangedSent == <<>>

\* ------------------------------------------------------------- actions
Record(op, ret, auth) ==
  lastOp' = [op |-> op, ret |-> ret, auth |-> auth, preLocked |-> isLocked,
             preTimer |-> (timers # {}), preLockWindow |-> (lockWindow # "none")]

\* A step that is no call of a handler records no pre-state.
RecordPlain(op) ==
  lastOp' = [op |-> op, ret |-> "none", auth |-> "none", preLocked |-> FALSE,
             preTimer |-> FALSE, preLockWindow |-> FALSE]

\* No call of the key manager or the cipher was the last step.
NoResult == [input |-> "none", value |-> NoValue, raised |-> FALSE]
NoSealed == [plain |-> NoValue, env |-> NullEnvelope]

\* A handler that runs to completion: w is the state it leaves.
Done(w, op, activity) ==
  /\ Cardinality(w.timers) <= MaxTimers
  /\ Commit(w)
  /\ Record(op, w.ret, "none")
  /\ idle' = IF activity \/ w.isLocked THEN 0 ELSE idle
  /\ result' = NoResult
  /\ wipeLog' = <<>>
  /\ UNCHANGED nav
  /\ UNCHANGED <<safeStorageAvailable, platform, phase, pendingUnlocks,
                 keysIssued, sealed, lastKey>>

Ready == phase = "ready"

Init ==
  /\ platform = "unread"
  /\ safeStorageAvailable \in BOOLEAN
  /\ LET w == constructor(EmptyDisk, safeStorageAvailable, 1)
     IN /\ isLocked = w.isLocked
        /\ lockTimeout = w.lockTimeout
        /\ lockTimeoutMs = w.lockTimeoutMs
        /\ settings = w.settings
        /\ timers = w.timers
        /\ files = w.files
        /\ mainWindow = w.mainWindow
        /\ focused = w.focused
        /\ focusLostTime = w.focusLostTime
        /\ lockWindow = w.lockWindow
  /\ phase = "constructed"
  /\ pendingUnlocks = 0
  /\ idle = 0
  /\ lastOp = [op |-> "constructor", ret |-> "none", auth |-> "none",
               preLocked |-> FALSE, preTimer |-> FALSE, preLockWindow |-> FALSE]
  /\ keysIssued = 0
  /\ sealed = NoSealed
  /\ lastKey = NoValue
  /\ result = NoResult
  /\ wipeLog = <<>>
  /\ nav = NoNav

\* The process quits and is started again over the same files.
Restart ==
  /\ \E avail \in BOOLEAN, currentHash \in MainHashes :
       /\ safeStorageAvailable' = avail
       /\ Commit(constructor(files, avail, currentHash))
       /\ \E warned \in integrityWarnings(Cur, currentHash) :
            lastOp' = [op |-> "constructor",
                       ret |-> IF warned THEN "warned" ELSE "none",
                       auth |-> "none", preLocked |-> FALSE, preTimer |-> FALSE,
                       preLockWindow |-> FALSE]
  /\ phase' = "constructed"
  /\ pendingUnlocks' = 0
  /\ idle' = 0
  /\ result' = NoResult
  /\ wipeLog' = <<>>
  /\ nav' = NoNav
  /\ UNCHANGED <<platform, keysIssued, sealed, lastKey>>

AppReady ==
  /\ phase = "constructed"
  /\ phase' = "ready"
  /\ LET w == whenReady(Cur)
     IN /\ Cardinality(w.timers) <= MaxTimers
        /\ Commit(w)
  /\ idle' = 0
  /\ Record("whenReady", "none", "none")
  /\ nav' = loadURL(nav, CalendarHome)
  /\ UNCHANGED <<safeStorageAvailable, platform, pendingUnlocks>>
  /\ UNCHANGED keyVars

\* Time advances by one tick; a due timer fires first.
Tick ==
  /\ idle < MaxIdle
  /\ \A t \in timers : t.remaining > 0
  /\ timers' = {[t EXCEPT !.remaining = @ - 1] : t \in timers}
  /\ focusLostTime' = IF focusLostTime = NoBlur THEN NoBlur ELSE BlurSaturated
  /\ idle' = IF isLocked THEN 0 ELSE idle + 1
  /\ RecordPlain("tick")
  /\ UNCHANGED <<isLocked, lockTimeout, lockTimeoutMs, settings, files,
                 safeStorageAvailable, platform, phase, mainWindow, focused,
                 lockWindow, pendingUnlocks>>
  /\ UNCHANGED keyVars
  /\ UNCHANGED nav

\* The callback of resetLockTimeout's setTimeout: () => { this.lock(); }
TimerFire ==
  \E t \in timers :
    /\ t.remaining = 0
    /\ Done(lock([Cur EXCEPT !.timers = timers \ {t}]), "timerFired", FALSE)

\* --- host handlers
MenuLockSession == Ready /\ mainWindow = "visible" /\ Done(lockSession(Cur), "menuLock", FALSE)
TrayLockSession == Ready /\ Done(lockSession(Cur), "trayLock", FALSE)
PowerLockScreen == Ready /\ Done(lockSession(Cur), "lock-screen", FALSE)
PowerSuspend == Ready /\ Done(lockSession(Cur), "suspend", FALSE)

Minimize ==
  /\ Ready /\ mainWindow = "visible"
  /\ \E minimizeToTray \in BOOLEAN : Done(onMinimize(Cur, minimizeToTray), "minimize", FALSE)

TrayOpen == Ready /\ mainWindow # "none" /\ Done(showMainWindow(Cur), "trayOpen", TRUE)

Focus == Ready /\ mainWindow = "visible" /\ ~focused /\ Done(onFocus(Cur), "focus", TRUE)

Blur == Ready /\ focused /\ Done(onBlur(Cur), "blur", FALSE)

\* 'before-input-event' of the main window's page
InputEvent ==
  Ready /\ mainWindow = "visible" /\ focused /\ Done(resetLockTimeout(Cur), "input", TRUE)

IpcLockSession ==
  /\ Ready /\ (lockWindow # "none" \/ mainWindow = "visible")
  /\ LET w == ipcLockSession(Cur) IN Done(w, "ipcLockSession", ~w.isLocked)

\* The user closes the lock window: its 'closed' handler.
LockWindowClosed ==
  Ready /\ lockWindow # "none" /\ Done([Cur EXCEPT !.lockWindow = "none"], "lockWindowClosed", FALSE)

MenuLockOnMinimize ==
  /\ Ready /\ mainWindow = "visible"
  /\ \E checked \in BOOLEAN, ioOk \in BOOLEAN :
       Done(saveSettings(Cur, [lockOnMinimize |-> checked], safeStorageAvailable, ioOk),
            "menuLockOnMinimize", TRUE)

MenuAutoLock ==
  /\ Ready /\ mainWindow = "visible"
  /\ \E minutes \in AutoLockChoices, ioOk \in BOOLEAN :
       Done(menuAutoLock(Cur, minutes, safeStorageAvailable, ioOk), "menuAutoLock", TRUE)

\* 'Clear Session Data' of the menu, confirmed in its dialog, and
\* ipcMain.handle('clear-session'): clearAllData() when no file operation
\* throws.
ClearSession(op) ==
  LET c == clearAllData(Cur, 0)
  IN /\ Commit(c.w)
     /\ Record(op, c.w.ret, "none")
     /\ wipeLog' = c.log
     /\ UNCHANGED nav
     /\ lastKey' = NoValue
     /\ result' = NoResult
     /\ UNCHANGED <<safeStorageAvailable, platform, phase, pendingUnlocks, idle,
                    keysIssued, sealed>>

MenuClearSession == Ready /\ mainWindow = "visible" /\ ClearSession("menuClearSession")

IpcClearSession ==
  Ready /\ (lockWindow # "none" \/ mainWindow = "visible") /\ ClearSession("ipcClearSession")

Next ==
  \/ Restart
  \/ AppReady
  \/ Tick
  \/ TimerFire
  \/ MenuLockSession
  \/ TrayLockSession
  \/ PowerLockScreen
  \/ PowerSuspend
  \/ Minimize
  \/ TrayOpen
  \/ Focus
  \/ Blur
  \/ InputEvent
  \/ IpcLockSession
  \/ LockWindowClosed
  \/ MenuLockOnMinimize
  \/ MenuAutoLock
  \/ MenuClearSession
  \/ IpcClearSession

Spec == Init /\ [][Next]_vars

\* --- the public interface of the module, called by any client
ApiLock == Done(lock(Cur), "lock", FALSE)

\* unlock(useBiometric) up to its return or its suspension at the prompt
ApiUnlock ==
  \E useBiometric \in BOOLEAN :
    IF unlockSuspends(Cur, useBiometric)
      THEN /\ pendingUnlocks < MaxPendingUnlocks
           /\ pendingUnlocks' = pendingUnlocks + 1
           /\ Record("unlock", "pending", "none")
           /\ UNCHANGED <<isLocked, lockTimeout, lockTimeoutMs, settings, timers,
                          files, safeStorageAvailable, platform, phase, mainWindow,
                          focused, focusLostTime, lockWindow, idle>>
           /\ UNCHANGED keyVars
           /\ UNCHANGED nav
      ELSE Done(unlockGranted(Cur), "unlock", TRUE)

\* The biometric prompt of a suspended unlock(true) answers.
BiometricAnswer(authenticated) ==
  /\ pendingUnlocks > 0
  /\ \E p \in Platforms :
       /\ platform \in {"unread", p}
       /\ platform' = p
       /\ authenticated \in authenticateWithBiometrics(p)
  /\ LET w == unlockAfterPrompt(Cur, authenticated)
     IN /\ Cardinality(w.timers) <= MaxTimers
        /\ Commit(w)
        /\ Record("unlockResolved", w.ret, IF authenticated THEN "true" ELSE "false")
        /\ idle' = IF authenticated \/ w.isLocked THEN 0 ELSE idle
  /\ pendingUnlocks' = pendingUnlocks - 1
  /\ UNCHANGED <<safeStorageAvailable, phase>>
  /\ UNCHANGED keyVars
  /\ UNCHANGED nav

UnlockResolved == \E authenticated \in BOOLEAN : BiometricAnswer(authenticated)

ApiResetLockTimeout == Done(resetLockTimeout(Cur), "resetLockTimeout", TRUE)

ApiClearLockTimeout == Done(clearLockTimeout(Cur), "clearLockTimeout", FALSE)

\* The partial settings a client passes to saveSettings.
ApiPartials ==
  {[autoLockMinutes |-> m] : m \in AutoLockChoices}
    \cup {[requireBiometric |-> b] : b \in BOOLEAN}

ApiSaveSettings ==
  \E newSettings \in ApiPartials, ioOk \in BOOLEAN :
    Done(saveSettings(Cur, newSettings, safeStorageAvailable, ioOk), "saveSettings", TRUE)

ApiNext ==
  \/ Restart
  \/ Tick
  \/ TimerFire
  \/ ApiLock
  \/ ApiUnlock
  \/ UnlockResolved
  \/ ApiResetLockTimeout
  \/ ApiClearLockTimeout
  \/ ApiSaveSettings

\* The module driven through its public interface.
SpecApi == Init /\ [][ApiNext]_vars

\* --- the key manager, the cipher and the eraser, called by any client
\* The payloads a client encrypts, and the iv randomBytes(16) yields.
Payloads == {JsNull, JsNumber, JsString, JsUndefined}
JsonPayloads == Payloads \ {JsUndefined}
Ivs == {1}
OtherIv == 2

\* Bytes that no encryption has produced.
Garbled == <<"garbled">>

\* A text other than the one given.
OtherText(text) ==
  IF text = JSONstringifyValue(JsNumber) THEN JSONstringifyValue(JsNull)
  ELSE JSONstringifyValue(JsNumber)

\* The envelopes that differ from envelope e in the ciphertext, in the tag
\* or in both: other bytes, the ciphertext of another text under the same
\* key and iv, and the ciphertext and tag of another envelope of that key.
Tampered(e) ==
  LET key == e.data[2]
      other == OtherText(e.data[4])
  IN {[e EXCEPT !.data = Garbled],
      [e EXCEPT !.tag = Garbled],
      [e EXCEPT !.data = gcmCiphertext(key, e.iv, other)],
      [e EXCEPT !.tag = gcmTag(key, e.iv, gcmCiphertext(key, e.iv, other))],
      [e EXCEPT !.data = Envelope(key, OtherIv, other).data,
                !.tag = Envelope(key, OtherIv, other).tag]}

\* What a client passes to decrypt: the envelope encrypt returned,
\* an envelope tampered with, null, an object without members, and an
\* authentic envelope of a text that is no JSON.
DecryptInputs(e) ==
  (IF e.null THEN {}
   ELSE {[kind |-> "genuine", env |-> e]}
          \cup {[kind |-> "tampered", env |-> t] : t \in Tampered(e)}
          \cup {[kind |-> "notJson", env |-> Envelope(e.data[2], e.iv, NotJson)]})
    \cup {[kind |-> "null", env |-> NullEnvelope],
          [kind |-> "malformed", env |-> EmptyObject]}

\* A call of the key manager or the cipher that leaves state w.
KeyCall(w, op, ret) ==
  /\ Commit(w)
  /\ Record(op, ret, "none")
  /\ wipeLog' = <<>>
  /\ UNCHANGED nav
  /\ UNCHANGED <<safeStorageAvailable, platform, phase, pendingUnlocks, idle>>

\* The call draws a key from randomBytes(32).
DrawsKey(avail, readOk, writeOk) ==
  getSessionKey(Cur, avail, readOk, writeOk, randomKey(keysIssued + 1)).v
    = randomKey(keysIssued + 1)

KeysAfter(avail, readOk, writeOk) ==
  IF DrawsKey(avail, readOk, writeOk) THEN keysIssued + 1 ELSE keysIssued

ApiGetSessionKey ==
  \E readOk \in BOOLEAN, writeOk \in BOOLEAN :
    LET avail == safeStorageAvailable
        newKey == randomKey(keysIssued + 1)
        g == getSessionKey(Cur, avail, readOk, writeOk, newKey)
    IN /\ KeysAfter(avail, readOk, writeOk) <= MaxKeys
       /\ KeyCall(g.w, "getSessionKey", "none")
       /\ keysIssued' = KeysAfter(avail, readOk, writeOk)
       /\ lastKey' = g.v
       /\ result' = [input |-> keyBranch(Cur, avail, readOk), value |-> g.v,
                     raised |-> FALSE]
       /\ UNCHANGED sealed

ApiEncrypt ==
  \E data \in Payloads, iv \in Ivs, readOk \in BOOLEAN, writeOk \in BOOLEAN :
    LET avail == safeStorageAvailable
        newKey == randomKey(keysIssued + 1)
        e == encrypt(Cur, data, avail, readOk, writeOk, newKey, iv)
    IN /\ KeysAfter(avail, readOk, writeOk) <= MaxKeys
       /\ KeyCall(e.w, "encrypt", "none")
       /\ keysIssued' = KeysAfter(avail, readOk, writeOk)
       /\ sealed' = [plain |-> data, env |-> e.v]
       /\ result' = NoResult
       /\ UNCHANGED lastKey

ApiDecrypt ==
  \E i \in DecryptInputs(sealed.env), readOk \in BOOLEAN, writeOk \in BOOLEAN :
    LET avail == safeStorageAvailable
        newKey == randomKey(keysIssued + 1)
        d == decrypt(Cur, i.env, avail, readOk, writeOk, newKey)
    IN /\ KeysAfter(avail, readOk, writeOk) <= MaxKeys
       /\ KeyCall(d.w, "decrypt", "none")
       /\ keysIssued' = KeysAfter(avail, readOk, writeOk)
       /\ result' = [input |-> i.kind, value |-> d.v, raised |-> d.raised]
       /\ UNCHANGED <<sealed, lastKey>>

\* clearAllData(), any of its first file operations throwing or none
ApiClearAllData ==
  \E failAt \in 0..MaxFailAt :
    LET c == clearAllData(Cur, failAt)
    IN /\ Commit(c.w)
       /\ Record("clearAllData", c.w.ret, "none")
       /\ wipeLog' = c.log
       /\ UNCHANGED nav
       /\ lastKey' = NoValue
       /\ result' = NoResult
       /\ UNCHANGED <<safeStorageAvailable, platform, phase, pendingUnlocks, idle,
                      keysIssued, sealed>>

ApiSaveLockOnMinimize ==
  \E ioOk \in BOOLEAN :
    Done(saveSettings(Cur, [lockOnMinimize |-> TRUE], safeStorageAvailable, ioOk),
         "saveSettings", FALSE)

\* clearAllData() when no file operation throws
ApiClearSession == ClearSession("clearAllData")

KeyNext ==
  \/ Restart
  \/ ApiLock
  \/ ApiResetLockTimeout
  \/ ApiGetSessionKey
  \/ ApiEncrypt
  \/ ApiDecrypt
  \/ ApiClearSession

\* The key manager and the cipher driven by any client.
SpecKey == Init /\ [][KeyNext]_vars

EraseNext ==
  \/ Restart
  \/ ApiSaveLockOnMinimize
  \/ ApiGetSessionKey
  \/ ApiClearAllData

\* The eraser over the files the module has written.
SpecErase == Init /\ [][EraseNext]_vars

\* --- the navigation of the main window
\* The URLs a page can ask for: with or without a user name before the
\* host, on Google hosts and on others, with and without a path; and a
\* string that is no URL.
UrlHosts ==
  { Dot("calendar", "google", "com"), <<"google", ".", "com">>,
    Dot("www", "google", "com"), Dot("lh3", "googleusercontent", "com"),
    <<"evil", ".", "com">>, <<"evilgoogle", ".", "com">>,
    Dot("calendar", "google", "com") \o <<".", "evil", ".", "com">> }
UrlUsers == {<<>>, Dot("calendar", "google", "com") \o <<"@">>}
UrlPaths == {<<>>, <<"/">>, <<"/", "calendar">>}
Urls ==
  {<<s>> \o u \o h \o p : s \in UrlSchemes, u \in UrlUsers, h \in UrlHosts, p \in UrlPaths}
    \cup {Dot("calendar", "google", "com")}

NavStep(n, op, ret) ==
  /\ Ready /\ mainWindow # "none"
  /\ nav' = n
  /\ Record(op, ret, "none")
  /\ UNCHANGED <<isLocked, lockTimeout, lockTimeoutMs, settings, timers, files,
                 safeStorageAvailable, platform, phase, mainWindow, focused,
                 focusLostTime, lockWindow, pendingUnlocks, idle>>
  /\ UNCHANGED keyVars

WillNavigate ==
  \E url \in Urls :
    NavStep(willNavigate(nav, url), "will-navigate",
            IF isAllowedUrl(url) THEN "allowed" ELSE "prevented")

WindowOpen == \E url \in Urls : NavStep(windowOpenHandler(nav, url), "windowOpen", "deny")

\* View > Day of the menu
MenuGoToDay ==
  NavStep(loadURL(nav, CalendarHome \o <<"/", "day">>), "menuGoToDay", "none")

NavNext ==
  \/ AppReady
  \/ WillNavigate
  \/ WindowOpen
  \/ MenuGoToDay

SpecNav == Init /\ [][NavNext]_vars

\* --- the host over settings that require the biometric confirmation
\* No item of the host's menu sets requireBiometric: it is set through the
\* module's saveSettings.
ApiSaveRequireBiometric ==
  \E b \in BOOLEAN, ioOk \in BOOLEAN :
    Done(saveSettings(Cur, [requireBiometric |-> b], safeStorageAvailable, ioOk),
         "saveSettings", FALSE)

BioNext ==
  \/ Restart
  \/ AppReady
  \/ Tick
  \/ TimerFire
  \/ MenuLockSession
  \/ PowerSuspend
  \/ InputEvent
  \/ IpcLockSession
  \/ LockWindowClosed
  \/ ApiSaveRequireBiometric

SpecBio == Init /\ [][BioNext]_vars

\* ================================================================ claims

\* C1: while autoLockMinutes is 0, a call of resetLockTimeout() leaves no
\* timer scheduled: lockTimeout is null and no timeout is pending.
C1_NoTimerWhileDisabled ==
  (settings.autoLockMinutes = 0 /\ lastOp.op = "resetLockTimeout")
    => (lockTimeout = NULL /\ timers = {})

\* C2: in every reachable state lockTimeoutMs equals
\* settings.autoLockMinutes * 60 * 1000.
C2_TimeoutFollowsSetting ==
  lockTimeoutMs = settings.autoLockMinutes * 60 * 1000

\* C3: a step of the Auto-Lock menu that changes autoLockMinutes leaves only
\* a timer armed just now with the new duration, and leaves one if the new
\* value is positive.
C3_ChangeRearmsTimer ==
  [][(MenuAutoLock /\ settings'.autoLockMinutes # settings.autoLockMinutes)
       => /\ \A t \in timers' :
               /\ t.ms = settings'.autoLockMinutes * MsPerMinute
               /\ t.remaining = TicksOf(t.ms)
          /\ (settings'.autoLockMinutes > 0 => timers' # {})]_vars

\* C4: with autoLockMinutes = N > 0, once more than N minutes have passed
\* since the last activity event or settings change, the session is Locked.
C4_LockedAfterTimeout ==
  (Ready /\ settings.autoLockMinutes > 0
     /\ idle * TickMs > settings.autoLockMinutes * MsPerMinute)
    => isLocked

\* C5: when the biometric prompt of an unlock(true) answers negatively, the
\* call returns false and leaves isLocked, lockTimeout and the pending timer
\* as they were.
C5_FailedBiometricKeepsLocked ==
  [][BiometricAnswer(FALSE)
       => /\ isLocked' = isLocked
          /\ lockTimeout' = lockTimeout
          /\ timers' = timers
          /\ lastOp'.ret = "false"]_vars

C5_Witness ==
  /\ lastOp.op = "unlockResolved" /\ lastOp.auth = "false"
  /\ lastOp.preLocked /\ isLocked /\ settings.requireBiometric

\* C6: a step of the host that closes the lock window ends with the session
\* unlocked by an unlock() that has run to its end, and with the main
\* window (if there is one) shown.
C6_LockWindowClosesOnlyOnUnlock ==
  [][(lockWindow = "open" /\ lockWindow' = "none"
        /\ lastOp'.op \notin {"lockWindowClosed", "constructor"})
       => (~isLocked' /\ pendingUnlocks' = 0 /\ mainWindow' \in {"visible", "none"})]_vars

C6_Witness ==
  /\ lastOp.op = "ipcLockSession" /\ lastOp.preLockWindow /\ lastOp.preLocked
  /\ lockWindow = "none" /\ ~isLocked

\* C7: after the handler of an OS lock-screen or suspend event, of the Lock
\* Session command, or of a minimize while lockOnMinimize is set, the
\* session is Locked; and lockSession() run in any reachable state of the
\* ready host leaves it Locked.
LockSignals == {"lock-screen", "suspend", "menuLock", "trayLock"}

C7_LockSignalsLock ==
  /\ lastOp.op \in LockSignals => isLocked
  /\ (lastOp.op = "minimize" /\ settings.lockOnMinimize) => isLocked
  /\ Ready => lockSession(Cur).isLocked

C7_Witness ==
  /\ lastOp.op = "minimize" /\ settings.lockOnMinimize
  /\ ~lastOp.preLocked /\ isLocked

\* C8: at most one timeout is pending at any time, and it is the one
\* lockTimeout refers to, so that no superseded timer is left to fire.
C8_OneTimer ==
  /\ Cardinality(timers) <= 1
  /\ \A t \in timers : t.id = lockTimeout

C8_Witness ==
  /\ lastOp.op = "input" /\ lastOp.preTimer
  /\ Cardinality(timers) = 1

\* C9: lock() run in any reachable state leaves the session Locked with no
\* timer and returns true, and a second lock() right after it changes
\* nothing.
C9_LockIdempotent ==
  /\ LET a == lock(Cur)
     IN /\ a.isLocked /\ a.ret = "true"
        /\ a.lockTimeout = NULL /\ a.timers = {}
        /\ lock(a) = a
  /\ lastOp.op = "lock" => (isLocked /\ lastOp.ret = "true")

C9_Witness ==
  lastOp.op = "lock" /\ lastOp.preLocked /\ isLocked /\ lastOp.ret = "true"

\* C10: right after lock() has run, called by a client or by the timer
\* firing, lockTimeout is null and no timeout is pending.
C10_LockCancelsTimer ==
  lastOp.op \in {"lock", "timerFired"} => (lockTimeout = NULL /\ timers = {})

C10_Witness ==
  lastOp.op = "lock" /\ lastOp.preTimer /\ lockTimeout = NULL /\ timers = {}

\* C11: right after an unlock() that succeeded on a Locked session, the
\* session is Unlocked and the timer it armed is not due yet, so that the
\* session is not locked again before any time has passed.
C11_UnlockStaysUnlocked ==
  (lastOp.op \in {"unlock", "unlockResolved"} /\ lastOp.ret = "true" /\ lastOp.preLocked)
    => /\ ~isLocked
       /\ \A t \in timers : t.remaining > 0

\* C12 as stated: unlock() run on an Unlocked session leaves the lock state,
\* the settings and the pending timer (whether there is one, and when it is
\* due) as they were.
C12_UnlockNoOpWhenUnlocked ==
  ~isLocked
    => LET u == unlockGranted(Cur)
       IN /\ u.isLocked = isLocked /\ u.settings = settings
          /\ u.lockTimeout = lockTimeout /\ u.timers = timers

\* C12 amended: unlock() run on an Unlocked session leaves it Unlocked and
\* leaves settings and lockTimeoutMs as they were; when it returns true it
\* has cancelled the pending timer and armed one with the whole of
\* lockTimeoutMs to run; when the prompt refuses, it changes nothing.
C12_UnlockWhenUnlockedRearms ==
  /\ ~isLocked
       => /\ LET u == unlockGranted(Cur)
             IN /\ ~u.isLocked /\ u.settings = settings
                /\ u.lockTimeoutMs = lockTimeoutMs /\ u.ret = "true"
                /\ u.lockTimeout # NULL
                /\ u.timers = {[id |-> u.lockTimeout, ms |-> lockTimeoutMs,
                                remaining |-> TicksOf(lockTimeoutMs)]}
          /\ unlockAfterPrompt(Cur, FALSE) = [Cur EXCEPT !.ret = "false"]
  /\ (lastOp.op = "unlock" /\ lastOp.ret = "true" /\ ~lastOp.preLocked)
       => /\ ~isLocked
          /\ timers = {[id |-> lockTimeout, ms |-> lockTimeoutMs,
                        remaining |-> TicksOf(lockTimeoutMs)]}

C12_Witness ==
  /\ lastOp.op = "unlock" /\ lastOp.ret = "true"
  /\ ~lastOp.preLocked /\ lastOp.preTimer
  /\ ~isLocked /\ lockTimeoutMs > 0
  /\ \E t \in timers : t.id = lockTimeout /\ t.remaining = TicksOf(lockTimeoutMs)

\* The key the next call of randomBytes(32) yields, and the one after it.
FreshKey == randomKey(keysIssued + 1)
NextFreshKey == randomKey(keysIssued + 2)

\* The key file holds key k as saveSessionKey writes it.
KeyFileHolds(fs, avail, k) ==
  fs.keyFile = FileWith(IF avail THEN encryptString(k) ELSE PlainBytes(k))

\* C13: while no clearAllData() has run since the last getSessionKey(), a
\* getSessionKey() none of whose file operations throws returns the key
\* returned before; and a step changes or removes a key file that exists
\* only if it is a clearAllData().
C13_KeyPersistedOnce ==
  /\ [](lastKey # NoValue
         => getSessionKey(Cur, safeStorageAvailable, TRUE, TRUE, FreshKey).v = lastKey)
  /\ [][(existsSync(files.keyFile) /\ files'.keyFile # files.keyFile)
         => lastOp'.op = "clearAllData"]_vars

\* C14: getSessionKey() run in any reachable state, whether or not its file
\* operations throw, returns a key of 64 hex digits.
C14_AlwaysFullKey ==
  /\ \A readOk \in BOOLEAN, writeOk \in BOOLEAN :
       IsSessionKey(getSessionKey(Cur, safeStorageAvailable, readOk, writeOk, FreshKey).v)
  /\ lastOp.op = "getSessionKey" => IsSessionKey(result.value)

C16_RoundTrip ==
  \A P \in JsonPayloads, iv \in Ivs :
    LET e == encrypt(Cur, P, safeStorageAvailable, TRUE, TRUE, FreshKey, iv)
    IN decrypt(e.w, e.v, safeStorageAvailable, TRUE, TRUE, NextFreshKey).v = P

SealedReadable ==
  /\ ~sealed.env.null
  /\ decrypt(Cur, sealed.env, safeStorageAvailable, TRUE, TRUE, FreshKey).v = sealed.plain

C18_DecryptNeverRaises ==
  /\ \A i \in DecryptInputs(sealed.env), readOk \in BOOLEAN, writeOk \in BOOLEAN :
       LET d == decrypt(Cur, i.env, safeStorageAvailable, readOk, writeOk, FreshKey)
       IN /\ ~d.raised
          /\ i.kind # "genuine" => d.v = JsNull
          /\ d.w.isLocked = isLocked /\ d.w.settings = settings
          /\ d.w.lockTimeoutMs = lockTimeoutMs
          /\ d.w.lockTimeout = lockTimeout /\ d.w.timers = timers
  /\ lastOp.op = "decrypt"
       => /\ ~result.raised
          /\ result.input # "genuine" => result.value = JsNull

C18_Witness ==
  /\ lastOp.op = "decrypt" /\ result.input = "notJson" /\ result.value = JsNull
  /\ SealedReadable /\ isLocked

\* C19: right after a clearAllData() that returned true, the key file, the
\* settings file and the integrity record do not exist, the secure
\* directory does not exist, and getSessionKey() returns the key it draws
\* from randomBytes, which is none of the keys drawn before.
C19_ClearedThenNewKey ==
  (lastOp.op = "clearAllData" /\ lastOp.ret = "true")
    => /\ ~existsSync(files.keyFile) /\ ~existsSync(files.configFile)
       /\ ~existsSync(files.integrityFile) /\ ~files.dir
       /\ \A readOk \in BOOLEAN, writeOk \in BOOLEAN :
            LET g == getSessionKey(Cur, safeStorageAvailable, readOk, writeOk, FreshKey)
            IN /\ g.v = FreshKey
               /\ \A n \in 1..keysIssued : g.v # randomKey(n)

\* The operations of the log on one file, in the order of the log.
RECURSIVE OpsOn(_, _)
OpsOn(log, name) ==
  IF log = <<>> THEN <<>>
  ELSE IF Head(log).file = name THEN <<Head(log)>> \o OpsOn(Tail(log), name)
  ELSE OpsOn(Tail(log), name)

\* Three overwrites with random bytes of the whole length, one with zero
\* bytes, then the deletion.
WipeOf(name, size) ==
  <<WriteOp(name, "random", size, size), WriteOp(name, "random", size, size),
    WriteOp(name, "random", size, size), WriteOp(name, "zeros", size, size),
    UnlinkOp(name, size)>>

\* The place of a file in the order of processing; the directory is last.
Rank(name) ==
  IF name = "keyFile" THEN 1 ELSE IF name = "configFile" THEN 2
  ELSE IF name = "integrityFile" THEN 3 ELSE 4

C19_Witness ==
  /\ lastOp.op = "clearAllData" /\ lastOp.ret = "true"
  /\ Len(OpsOn(wipeLog, "keyFile")) = 5 /\ keysIssued > 0
  /\ files = EmptyDisk

\* The log of a clearAllData(): for each file it touches, three overwrites
\* with random bytes of the file's length, one overwrite with zero bytes of
\* that length and then the deletion, cut short only where an operation
\* threw; the files in the order key file, settings file, integrity
\* record; the directory removed last, after each file touched has been
\* deleted.
WipeLogInOrder ==
  /\ \A i \in 1..Len(ProtectedFiles) :
       LET ops == OpsOn(wipeLog, ProtectedFiles[i])
       IN ops # <<>>
            => /\ ops[1].size > 0
               /\ ops = SubSeq(WipeOf(ProtectedFiles[i], ops[1].size), 1, Len(ops))
  /\ \A j \in 1..Len(wipeLog), k \in 1..Len(wipeLog) :
       j < k => Rank(wipeLog[j].file) <= Rank(wipeLog[k].file)
  /\ \A k \in 1..Len(wipeLog) :
       wipeLog[k].op = "rm"
         => /\ k = Len(wipeLog)
            /\ \A i \in 1..Len(ProtectedFiles) :
                 Len(OpsOn(wipeLog, ProtectedFiles[i])) \in {0, 5}

\* C20: the file operations of every clearAllData() are in that order, and
\* a clearAllData() that returns true has issued, for each protected file
\* that was present, the whole sequence for the length the file had, and
\* has removed the directory if there was one.
C20_WipeOrder ==
  /\ []WipeLogInOrder
  /\ [][(lastOp'.op = "clearAllData" /\ lastOp'.ret = "true")
         => /\ \A i \in 1..Len(ProtectedFiles) :
                 LET f == files[ProtectedFiles[i]]
                 IN OpsOn(wipeLog', ProtectedFiles[i])
                      = (IF existsSync(f) THEN WipeOf(ProtectedFiles[i], f.size)
                         ELSE <<>>)
            /\ files.dir => wipeLog'[Len(wipeLog')] = RmDirOp]_vars

C20_Witness ==
  /\ lastOp.op = "clearAllData" /\ lastOp.ret = "true"
  /\ Len(wipeLog) = 16

\* C21: a clearAllData() in which a file operation throws returns false,
\* and what it did before the throw stays done: its log is the plan up to
\* the operation that threw, every file it had unlinked does not exist,
\* every file it had overwritten holds the bytes of the last overwrite and
\* none of the text it held, and a file it had not reached is as it was.
C21_FailureKeepsErasure ==
  [][(lastOp'.op = "clearAllData" /\ lastOp'.ret = "false")
       => /\ Len(wipeLog') < Len(clearPlan(files))
          /\ wipeLog' = SubSeq(clearPlan(files), 1, Len(wipeLog'))
          /\ files' = applyOps(files, wipeLog', Len(wipeLog'))
          /\ \A i \in 1..Len(ProtectedFiles) :
               LET ops == OpsOn(wipeLog', ProtectedFiles[i])
                   f == files'[ProtectedFiles[i]]
               IN /\ (ops # <<>> /\ ops[Len(ops)].op = "unlink") => ~existsSync(f)
                  /\ (ops # <<>> /\ ops[Len(ops)].op = "write")
                       => /\ f = Overwritten(ops[Len(ops)].fill, ops[Len(ops)].len)
                          /\ f.content.text = <<>>
                  /\ ops = <<>> => f = files[ProtectedFiles[i]]]_vars

\* The key file is gone, the settings file is half overwritten and the
\* integrity record is untouched.
C21_Witness ==
  /\ lastOp.op = "clearAllData" /\ lastOp.ret = "false"
  /\ Len(OpsOn(wipeLog, "keyFile")) = 5 /\ ~existsSync(files.keyFile)
  /\ Len(OpsOn(wipeLog, "configFile")) = 2 /\ existsSync(files.configFile)
  /\ existsSync(files.integrityFile) /\ files.dir

\* The state a first run is said to leave: the directory, a key in the key
\* file, the settings in the settings file, isLocked reported false.
FirstRunAsStated ==
  /\ files.dir
  /\ existsSync(files.keyFile)
  /\ existsSync(files.configFile)
  /\ ~getSecurityStatus(Cur, safeStorageAvailable).isLocked

\* The state a first run leaves: the directory and the integrity record of
\* the running main.js; no key file and no settings file; the default
\* settings in memory; isLocked and sessionProtected reported false.
FirstRunLeft ==
  /\ files.dir
  /\ ~existsSync(files.keyFile)
  /\ ~existsSync(files.configFile)
  /\ \E h \in MainHashes :
       files.integrityFile = FileWith(PlainBytes(<<"main", ":", h>>))
  /\ settings = DefaultSettings
  /\ lockTimeoutMs = DefaultLockTimeoutMs
  /\ timers = {}
  /\ LET status == getSecurityStatus(Cur, safeStorageAvailable)
     IN /\ ~status.isLocked
        /\ ~status.sessionProtected
        /\ status.integrityVerified
        /\ status.settings = DefaultSettings

C23_SaveSettingsNeverRaises ==
  \A partial \in ApiPartials, avail \in BOOLEAN, ioOk \in BOOLEAN :
    LET s == saveSettings(Cur, partial, avail, ioOk)
    IN /\ s.ret \in {"true", "false"}
       /\ (avail /\ ~ioOk) => s.ret = "false"
       /\ ~avail => (s.ret = "true" /\ s.files = files)
       /\ s.ret = "false" => s.files = files
       /\ \A k \in DOMAIN partial : s.settings[k] = partial[k]
       /\ \A k \in (DOMAIN settings) \ (DOMAIN partial) : s.settings[k] = settings[k]
       /\ DOMAIN s.settings = DOMAIN settings
       /\ getSecurityStatus(s, avail).autoLockMinutes
            = (IF "autoLockMinutes" \in DOMAIN partial
                 THEN partial.autoLockMinutes ELSE settings.autoLockMinutes)

\* A saveSettings({autoLockMinutes: 15}) whose write threw: it returned
\* false, the value is in memory and not in the settings file.
C23_Witness ==
  /\ lastOp.op = "saveSettings" /\ lastOp.ret = "false"
  /\ getSecurityStatus(Cur, safeStorageAvailable).autoLockMinutes = 15
  /\ existsSync(files.configFile)
  /\ JSONparse(decryptString(files.configFile.content)).autoLockMinutes # 15

C25_IpcLockSessionLocks ==
  lastOp.op = "ipcLockSession" => isLocked

\* C26: every step that changes the lock state sends one
\* 'lock-state-changed' message that carries the new state.
C26_LockChangeNotified ==
  [][isLocked' # isLocked => lockStateChangedSent = <<isLocked'>>]_vars

\* A host of Google: google.com, googleapis.com, gstatic.com or
\* googleusercontent.com, or a name that ends with "." and one of them.
GoogleHost(h) ==
  \E d \in googleDomains : h = Tail(d) \/ endsWith(h, d)

\* C27: isAllowedUrl is true only of URLs whose host is a host of Google,
\* the main window shows no URL of another host, and a URL of another host
\* that a page asks for is handed to the external browser.
C27_OnlyGoogleHosts ==
  /\ \A url \in Urls : isAllowedUrl(url) => GoogleHost(hostname(url))
  /\ nav.shown # NoUrl => GoogleHost(hostname(nav.shown))
  /\ (lastOp.op \in {"will-navigate", "windowOpen"} /\ nav.external = NoUrl)
       => GoogleHost(hostname(nav.shown))

\* C28: when the main window regains the focus more than 5 minutes after
\* it lost it, with autoLockMinutes above 0, the session is Locked after
\* the 'focus' handlers have run.
C28_ProlongedBlurLocks ==
  [][(lastOp'.op = "focus" /\ BlurredTooLong(Cur) /\ settings.autoLockMinutes > 0)
       => isLocked']_vars

\* C29: in every state in which the session is Locked, a lock window is
\* open and the main window is not on the screen.
C29_LockedShowsLockScreen ==
  isLocked => (lockWindow # "none" /\ mainWindow \notin {"visible", "minimized"})

C31_LockNotUndoneByPendingUnlock ==
  [][(lastOp.op \in {"lock", "timerFired"} /\ pendingUnlocks > 0 /\ isLocked
        /\ lastOp'.op = "unlockResolved")
       => isLocked']_vars

\* C32: right after a clearAllData() that returned true, with no file
\* operation throwing afterwards: the key the next getSessionKey() returns
\* is in the key file, the getSessionKey() after it returns the same key,
\* decrypt(encrypt(P)) is P for every JSON payload P, and saveSettings
\* returns true and leaves the settings in the settings file.
C32_KeyManagementAfterClear ==
  (lastOp.op = "clearAllData" /\ lastOp.ret = "true")
    => LET avail == safeStorageAvailable
           g1 == getSessionKey(Cur, avail, TRUE, TRUE, FreshKey)
           g2 == getSessionKey(g1.w, avail, TRUE, TRUE, NextFreshKey)
           s == saveSettings(Cur, [lockOnMinimize |-> TRUE], avail, TRUE)
       IN /\ KeyFileHolds(g1.w.files, avail, g1.v)
          /\ g2.v = g1.v
          /\ \A P \in JsonPayloads, iv \in Ivs :
               LET e == encrypt(Cur, P, avail, TRUE, TRUE, FreshKey, iv)
               IN decrypt(e.w, e.v, avail, TRUE, TRUE, NextFreshKey).v = P
          /\ s.ret = "true"
          /\ avail => s.files.configFile
                        = FileWith(encryptString(JSONstringify(s.settings)))

\* C33: right after a saveSettings that returned true, a new
\* SessionProtection constructed over the same files, with safeStorage as
\* available as it is now, has the settings of this instance.
C33_SettingsRoundTrip ==
  (lastOp.op = "saveSettings" /\ lastOp.ret = "true")
    => \A h \in MainHashes :
         constructor(files, safeStorageAvailable, h).settings = settings

\* C34: for every JSON payload P whose envelope decrypts without a failure
\* in this state, the value decrypt returns for it is not the value decrypt
\* returns for an envelope tampered with.
C34_FailureDistinguishable ==
  \A P \in JsonPayloads, iv \in Ivs :
    LET avail == safeStorageAvailable
        e == encrypt(Cur, P, avail, TRUE, TRUE, FreshKey, iv)
    IN (~e.v.null /\ ~decryptTry(e.w, e.v, avail, TRUE, TRUE, NextFreshKey).threw)
         => \A t \in Tampered(e.v) :
              decrypt(e.w, e.v, avail, TRUE, TRUE, NextFreshKey).v
                # decrypt(e.w, t, avail, TRUE, TRUE, NextFreshKey).v

\* C35: right after a start at which the integrity check found the record
\* to differ from the hash of main.js, getSecurityStatus() does not report
\* integrityVerified.
C35_IntegrityVerifiedMeansMatch ==
  (lastOp.op = "constructor" /\ lastOp.ret = "warned")
    => ~getSecurityStatus(Cur, safeStorageAvailable).integrityVerified

====
